---- MODULE Spec2Model ----
(***************************************************************************)
(* Ledger state machine of chigui-core: State::from_parts replays the      *)
(* transaction log over a clone of the genesis balances with State::apply. *)
(* u64 balances are modelled in a scaled-down unsigned domain 0..MaxU64    *)
(* (TLC integers are 32 bit); `+=` and `-=` keep the width: they panic     *)
(* when overflow checks are compiled in and wrap modulo MaxU64+1 when not. *)
(***************************************************************************)
EXTENDS Integers, Sequences, FiniteSets, TLC

\* ---- bounds ----
MaxU64 == 255
MaxTxs == 2

Modulus == MaxU64 + 1

Accounts == {"alice", "bob", "carol"}

\* initial balances drawn for each account of a genesis record
GenesisValues(a) == IF a = "carol" THEN {99} ELSE {0, 100, MaxU64}

\* values drawn for the transactions of the log
TxValues == {50, 100}

\* ---- error and panic messages of the source ----
ErrAccountNotFound == "Account not found."
ErrToAccountNotFound == "[To] Account not found."
ErrInsufficientBalance == "Insufficient balance."
PanicDuplicateKeys == "duplicate keys found"
PanicAddOverflow == "attempt to add with overflow"
PanicSubOverflow == "attempt to subtract with overflow"

\* ---- Tx (lib.rs) ----
Transfer(from, to, value) == [type |-> "transfer", from |-> from, to |-> to, value |-> value]
Generate(to, value) == [type |-> "generate", to |-> to, value |-> value]

TxSpace ==
    {Transfer(f, t, v) : f \in Accounts, t \in Accounts, v \in TxValues}
        \cup {Generate(t, v) : t \in Accounts, v \in TxValues}

TxSeqs == UNION {[1..n -> TxSpace] : n \in 0..MaxTxs}

GenesisSpace ==
    {g \in UNION {[K -> UNION {GenesisValues(a) : a \in Accounts}] : K \in SUBSET Accounts} :
        \A a \in DOMAIN g : g[a] \in GenesisValues(a)}

\* ---- results of apply ----
Ok(bal) == [kind |-> "ok", msg |-> "", balances |-> bal]
Err(m, bal) == [kind |-> "err", msg |-> m, balances |-> bal]
Panic(m, bal) == [kind |-> "panic", msg |-> m, balances |-> bal]

\* u64 `+=`: panics under overflow checks, wraps otherwise
AddAssign(a, b, checks) ==
    IF a + b > MaxU64
    THEN [panic |-> checks, val |-> (a + b) % Modulus]
    ELSE [panic |-> FALSE, val |-> a + b]

\* u64 `-=`: panics under overflow checks, wraps otherwise
SubAssign(a, b, checks) ==
    IF a - b < 0
    THEN [panic |-> checks, val |-> (a - b) % Modulus]
    ELSE [panic |-> FALSE, val |-> a - b]

\* HashMap::get_disjoint_mut([from, to]): panics when two looked-up keys
\* resolve to the same entry; absent keys yield None
GetDisjointMut(bal, from, to) ==
    [dup |-> from = to /\ from \in DOMAIN bal,
     from |-> from \in DOMAIN bal,
     to |-> to \in DOMAIN bal]

InsufficientNever(value, from_balance) == FALSE
InsufficientOffByOne(value, from_balance) == value > from_balance + 1
InsufficientOrEqual(value, from_balance) == value >= from_balance

\* the sufficiency test `*value > *from_balance`
Insufficient(value, from_balance) == value > from_balance

GetMutOrInsert(bal, to) ==
    [found |-> TRUE,
     balances |-> [a \in DOMAIN bal \cup {to} |-> IF a \in DOMAIN bal THEN bal[a] ELSE 0]]

\* the lookup `balances.get_mut(to)` of Generate: the map after the lookup
\* and whether an entry was found
GetMut(bal, to) == [found |-> to \in DOMAIN bal, balances |-> bal]

ApplyTransferSufficiencyFirst(bal, tx, checks) ==
    LET slots == GetDisjointMut(bal, tx.from, tx.to) IN
    IF slots.dup THEN Panic(PanicDuplicateKeys, bal)
    ELSE IF ~slots.from THEN Err(ErrAccountNotFound, bal)
    ELSE IF Insufficient(tx.value, bal[tx.from]) THEN Err(ErrInsufficientBalance, bal)
    ELSE IF ~slots.to THEN Err(ErrAccountNotFound, bal)
    ELSE
      LET add == AddAssign(bal[tx.to], tx.value, checks)
          afterAdd == [bal EXCEPT ![tx.to] = add.val]
          sub == SubAssign(afterAdd[tx.from], tx.value, checks)
          afterSub == [afterAdd EXCEPT ![tx.from] = sub.val]
      IN IF add.panic THEN Panic(PanicAddOverflow, bal)
         ELSE IF sub.panic THEN Panic(PanicSubOverflow, afterAdd)
         ELSE Ok(afterSub)

\* the Transfer arm of State::apply
ApplyTransfer(bal, tx, checks) ==
    LET slots == GetDisjointMut(bal, tx.from, tx.to) IN
    IF slots.dup THEN Panic(PanicDuplicateKeys, bal)
    ELSE IF ~(slots.from /\ slots.to) THEN Err(ErrAccountNotFound, bal)
    ELSE IF Insufficient(tx.value, bal[tx.from]) THEN Err(ErrInsufficientBalance, bal)
    ELSE
      LET add == AddAssign(bal[tx.to], tx.value, checks)
          afterAdd == [bal EXCEPT ![tx.to] = add.val]
          sub == SubAssign(afterAdd[tx.from], tx.value, checks)
          afterSub == [afterAdd EXCEPT ![tx.from] = sub.val]
      IN IF add.panic THEN Panic(PanicAddOverflow, bal)
         ELSE IF sub.panic THEN Panic(PanicSubOverflow, afterAdd)
         ELSE Ok(afterSub)

ApplyGenerate(bal, tx, checks) ==
    LET look == GetMut(bal, tx.to) IN
    IF ~look.found THEN Err(ErrToAccountNotFound, look.balances)
    ELSE
      LET add == AddAssign(look.balances[tx.to], tx.value, checks) IN
      IF add.panic THEN Panic(PanicAddOverflow, look.balances)
      ELSE Ok([look.balances EXCEPT ![tx.to] = add.val])

\* State::apply
Apply(bal, tx, checks) ==
    IF tx.type = "transfer" THEN ApplyTransfer(bal, tx, checks)
    ELSE ApplyGenerate(bal, tx, checks)

\* ---- from_parts ----
CloneZeroed(g) == [a \in DOMAIN g |-> 0]
CloneNonZero(g) == [a \in {x \in DOMAIN g : g[x] # 0} |-> g[a]]

\* `genesis.balances.clone()`
CloneBalances(g) == g

\* the element the iterator `txs.iter()` yields at position i
IterItem(s, i) == s[i]

AdvanceSkipping(i) == i + 2

\* the iterator moves to the next element after a successful apply
Advance(i) == i + 1

PropagatesNever(r) == FALSE

\* the `?` on the result of apply: an Err leaves from_parts at once
Propagates(r) == r.kind = "err"

GenesisShared(g, bal) == bal

\* State.genesis after apply wrote to State.balances: balances is a clone
\* (state.rs:74), so the write does not reach genesis.balances
GenesisAfterApply(g, bal) == g

TxsAppended(s, tx) == Append(s, tx)

\* State.txs after apply(tx): apply writes balances only, and the replay
\* loop iterates over a clone of txs (state.rs:80)
TxsAfterApply(s, tx) == s

\* ---- get_balance ----
None == <<"None">>
Some(v) == <<"Some", v>>

GetBalanceOrInsert(bal, acct) ==
    [value |-> IF acct \in DOMAIN bal THEN Some(bal[acct]) ELSE Some(0),
     balances |-> [a \in DOMAIN bal \cup {acct} |-> IF a \in DOMAIN bal THEN bal[a] ELSE 0]]

\* `balances.borrow().get(acct).cloned()`: the value returned and the map
\* after the call
GetBalanceOf(bal, acct) ==
    [value |-> IF acct \in DOMAIN bal THEN Some(bal[acct]) ELSE None,
     balances |-> bal]

\* ---- open: the files of the database directory and their parsing ----
ErrParseGenesis == "Failed to parse genesis."
ErrParseTx == "Failed to parse transaction."
ErrIo == "No such file or directory"

\* genesis.json: a well-formed record, a record without chain_id, a record
\* with a negative balance
GenesisTexts ==
    {[genesis_time |-> "t", chain_id |-> "c", balances |-> g] : g \in GenesisSpace}
        \cup {[genesis_time |-> "t", balances |-> [a \in {"alice"} |-> 100]],
              [genesis_time |-> "t", chain_id |-> "c", balances |-> [a \in {"alice"} |-> 0 - 1]]}

\* serde_json::from_str::<Genesis>: every field present, balances in u64
ParseGenesis(text) ==
    IF /\ {"genesis_time", "chain_id", "balances"} \subseteq DOMAIN text
       /\ \A a \in DOMAIN text.balances : text.balances[a] \in 0..MaxU64
    THEN [ok |-> TRUE, balances |-> text.balances]
    ELSE [ok |-> FALSE, balances |-> [a \in {} |-> 0]]

\* lines of tx.db that are no transaction: an unknown tag, a negative
\* value, a missing field, a blank line
MalformedLines ==
    {[type |-> "mint", to |-> "alice", value |-> 50],
     [type |-> "transfer", from |-> "alice", to |-> "bob", value |-> 0 - 1],
     [type |-> "generate", to |-> "alice"],
     [blank |-> TRUE]}

TxLines == TxSpace \cup MalformedLines

TxDbTexts == UNION {[1..n -> TxLines] : n \in 0..MaxTxs}

\* serde_json::from_str::<Tx> on one line: the tag selects the variant,
\* whose fields must be present, with value in u64
ParseTx(line) ==
    IF /\ "type" \in DOMAIN line
       /\ line.type = "transfer"
       /\ {"from", "to", "value"} \subseteq DOMAIN line
       /\ line.value \in 0..MaxU64
    THEN [ok |-> TRUE, tx |-> Transfer(line.from, line.to, line.value)]
    ELSE IF /\ "type" \in DOMAIN line
            /\ line.type = "generate"
            /\ {"to", "value"} \subseteq DOMAIN line
            /\ line.value \in 0..MaxU64
    THEN [ok |-> TRUE, tx |-> Generate(line.to, line.value)]
    ELSE [ok |-> FALSE, tx |-> Generate("", 0)]

WellFormed(line) == ParseTx(line).ok

ParseTxsSkipping(lines) ==
    LET good == SelectSeq(lines, WellFormed)
    IN [ok |-> TRUE, txs |-> [i \in 1..Len(good) |-> ParseTx(good[i]).tx]]

\* parse_txs: every line is parsed; one Err makes the collected Result an Err
ParseTxs(lines) ==
    IF \A i \in 1..Len(lines) : WellFormed(lines[i])
    THEN [ok |-> TRUE, txs |-> [i \in 1..Len(lines) |-> ParseTx(lines[i]).tx]]
    ELSE [ok |-> FALSE, txs |-> <<>>]

VARIABLES
    overflow_checks,  \* build profile: integer overflow checks compiled in
    genesis,          \* State.genesis.balances
    txs,              \* State.txs
    balances,         \* State.balances
    pc,               \* "replay" inside from_parts; "ok", "err", "panic" after
    idx,              \* position of the replay loop in txs
    err,              \* message of the Err returned by from_parts
    calls,            \* apply calls made on the state after from_parts returned
    last,             \* the latest apply call: its tx, the map before, its result
    answer,           \* the value returned by the latest get_balance call
    genesis_file,     \* genesis.json of the database directory read by open
    tx_file,          \* tx.db of the database directory read by open
    second            \* a second run of from_parts on the same genesis and txs

vars == <<overflow_checks, genesis, txs, balances, pc, idx, err, calls, last, answer,
          genesis_file, tx_file, second>>

files == <<genesis_file, tx_file, second>>

\* the second run has not been started
NoRun == [pc |-> "none"]

\* no database directory: the state is built from parts in memory
NoFile == [exists |-> FALSE]

NoAnswer == [asked |-> FALSE]

NoCall == [kind |-> "none"]

Call(tx, pre, r) == [kind |-> r.kind, msg |-> r.msg, tx |-> tx, pre |-> pre]

Init ==
    /\ overflow_checks \in BOOLEAN
    /\ genesis \in GenesisSpace
    /\ txs \in TxSeqs
    /\ balances = CloneBalances(genesis)
    /\ pc = "replay"
    /\ idx = 1
    /\ err = ""
    /\ calls = 0
    /\ last = NoCall
    /\ answer = NoAnswer
    /\ genesis_file = NoFile
    /\ tx_file = NoFile
    /\ second = NoRun

\* one iteration of `for tx in txs.iter() { state.apply(tx)?; }`
ReplayStep ==
    /\ pc = "replay"
    /\ idx <= Len(txs)
    /\ LET tx == IterItem(txs, idx)
           r == Apply(balances, tx, overflow_checks)
       IN /\ last' = Call(tx, balances, r)
          /\ balances' = r.balances
          /\ genesis' = GenesisAfterApply(genesis, r.balances)
          /\ txs' = TxsAfterApply(txs, tx)
          /\ IF r.kind = "panic"
             THEN /\ pc' = "panic"
                  /\ UNCHANGED <<idx, err>>
             ELSE IF Propagates(r)
             THEN /\ pc' = "err"
                  /\ err' = r.msg
                  /\ UNCHANGED idx
             ELSE /\ idx' = Advance(idx)
                  /\ UNCHANGED <<pc, err>>
    /\ UNCHANGED <<overflow_checks, calls, answer, files>>

\* the loop is exhausted: `Ok(state)`
ReplayDone ==
    /\ pc = "replay"
    /\ idx > Len(txs)
    /\ pc' = "ok"
    /\ UNCHANGED <<overflow_checks, genesis, txs, balances, idx, err, calls, last, answer, files>>

\* a further `state.apply(&tx)` on a constructed state, as the unit tests make
ApplyCall ==
    /\ pc = "ok"
    /\ Len(txs) + calls < MaxTxs
    /\ \E tx \in TxSpace :
         LET r == Apply(balances, tx, overflow_checks)
         IN /\ last' = Call(tx, balances, r)
            /\ balances' = r.balances
            /\ genesis' = GenesisAfterApply(genesis, r.balances)
            /\ txs' = TxsAfterApply(txs, tx)
            /\ pc' = IF r.kind = "panic" THEN "panic" ELSE pc
    /\ calls' = calls + 1
    /\ answer' = NoAnswer
    /\ UNCHANGED <<overflow_checks, idx, err, files>>

\* `state.get_balance(&acct)` on a constructed state
GetBalance ==
    /\ pc = "ok"
    /\ \E acct \in Accounts :
         LET r == GetBalanceOf(balances, acct)
         IN /\ answer' = [asked |-> TRUE, acct |-> acct, value |-> r.value]
            /\ balances' = r.balances
    /\ UNCHANGED <<overflow_checks, genesis, txs, pc, idx, err, calls, last, files>>

Next == ReplayStep \/ ReplayDone \/ ApplyCall \/ GetBalance

Spec == Init /\ [][Next]_vars

\* ---- from_parts called a second time with the same arguments ----
first == <<overflow_checks, genesis, txs, balances, pc, idx, err, calls, last, answer,
           genesis_file, tx_file>>

\* the second call enters from_parts once the first has ended
SecondStart ==
    /\ pc \in {"ok", "err", "panic"}
    /\ second = NoRun
    /\ second' = [pc |-> "replay", idx |-> 1, err |-> "",
                  balances |-> CloneBalances(genesis)]
    /\ UNCHANGED first

SecondStep ==
    /\ second.pc = "replay"
    /\ second.idx <= Len(txs)
    /\ LET tx == IterItem(txs, second.idx)
           r == Apply(second.balances, tx, overflow_checks)
       IN second' =
            IF r.kind = "panic"
            THEN [second EXCEPT !.pc = "panic", !.balances = r.balances]
            ELSE IF Propagates(r)
            THEN [second EXCEPT !.pc = "err", !.err = r.msg, !.balances = r.balances]
            ELSE [second EXCEPT !.idx = Advance(second.idx), !.balances = r.balances]
    /\ UNCHANGED first

SecondDone ==
    /\ second.pc = "replay"
    /\ second.idx > Len(txs)
    /\ second' = [second EXCEPT !.pc = "ok"]
    /\ UNCHANGED first

NextTwoRuns == ReplayStep \/ ReplayDone \/ SecondStart \/ SecondStep \/ SecondDone

SpecTwoRuns == Init /\ [][NextTwoRuns]_vars

\* ---- State::open, as main calls it ----
NoBalances == [a \in {} |-> 0]

InitOpen ==
    /\ overflow_checks \in BOOLEAN
    /\ genesis_file \in {NoFile} \cup {[exists |-> TRUE, text |-> t] : t \in GenesisTexts}
    /\ tx_file \in {NoFile} \cup {[exists |-> TRUE, lines |-> l] : l \in TxDbTexts}
    /\ genesis = NoBalances
    /\ txs = <<>>
    /\ balances = NoBalances
    /\ pc = "open"
    /\ idx = 1
    /\ err = ""
    /\ calls = 0
    /\ last = NoCall
    /\ answer = NoAnswer
    /\ second = NoRun

\* open up to its call of from_parts: both files are read, then both are
\* parsed, then the State is assembled and the replay starts
Open ==
    /\ pc = "open"
    /\ IF ~genesis_file.exists \/ ~tx_file.exists
       THEN /\ pc' = "err"
            /\ err' = ErrIo
            /\ UNCHANGED <<genesis, txs, balances>>
       ELSE LET g == ParseGenesis(genesis_file.text)
                t == ParseTxs(tx_file.lines)
            IN IF ~g.ok
               THEN /\ pc' = "err"
                    /\ err' = ErrParseGenesis
                    /\ UNCHANGED <<genesis, txs, balances>>
               ELSE IF ~t.ok
               THEN /\ pc' = "err"
                    /\ err' = ErrParseTx
                    /\ UNCHANGED <<genesis, txs, balances>>
               ELSE /\ genesis' = g.balances
                    /\ txs' = t.txs
                    /\ balances' = CloneBalances(g.balances)
                    /\ pc' = "replay"
                    /\ UNCHANGED err
    /\ UNCHANGED <<overflow_checks, idx, calls, last, answer, files>>

NextOpen == Open \/ ReplayStep \/ ReplayDone

SpecOpen == InitOpen /\ [][NextOpen]_vars

TypeOK ==
    /\ overflow_checks \in BOOLEAN
    /\ pc \in {"open", "replay", "ok", "err", "panic"}
    /\ idx \in 1..(Len(txs) + 1)
    /\ calls \in 0..MaxTxs
    /\ \A a \in DOMAIN balances : balances[a] \in 0..MaxU64

\* ---- reference semantics of replay ----
\* the map obtained from bal by one apply per transaction of s, in order
RECURSIVE ReplayAll(_, _, _)
ReplayAll(bal, s, checks) ==
    IF s = <<>> THEN bal
    ELSE ReplayAll(Apply(bal, Head(s), checks).balances, Tail(s), checks)

\* position (counted from i) of the first transaction of s whose apply does
\* not return Ok in the map left by its predecessors; 0 when there is none
RECURSIVE FirstFailure(_, _, _, _)
FirstFailure(bal, s, i, checks) ==
    IF s = <<>> THEN 0
    ELSE LET r == Apply(bal, Head(s), checks) IN
         IF r.kind = "ok" THEN FirstFailure(r.balances, Tail(s), i + 1, checks)
         ELSE i

RECURSIVE SumBalances(_)
SumBalances(bal) ==
    IF DOMAIN bal = {} THEN 0
    ELSE LET a == CHOOSE x \in DOMAIN bal : TRUE
         IN bal[a] + SumBalances([x \in DOMAIN bal \ {a} |-> bal[x]])

Called == last.kind # "none"
IsTransfer == Called /\ last.tx.type = "transfer"
IsGenerate == Called /\ last.tx.type = "generate"
AccountNotFound == {ErrAccountNotFound, ErrToAccountNotFound}

\* C1 (as stated): whenever a State exists after from_parts returned Ok,
\* also after further apply calls, balances is the genesis mapping with
\* every transaction of txs applied in order.
C1_BalancesAreReplayOfTxs ==
    pc = "ok" => balances = ReplayAll(genesis, txs, overflow_checks)

\* C1 (amended): a State returned by from_parts, on which no further apply
\* call has been made, has balances equal to the genesis mapping with every
\* transaction of txs applied in order, one apply per transaction.
C1_ReturnedStateIsReplayOfTxs ==
    (pc = "ok" /\ calls = 0) => balances = ReplayAll(genesis, txs, overflow_checks)

C1_Witness ==
    /\ pc = "ok"
    /\ calls = 0
    /\ Len(txs) >= 2
    /\ balances # genesis

\* C2: no balance is negative after any prefix of applied transactions, and
\* the subtraction of a Transfer never goes below 0: a Transfer that
\* returns Ok debited no more than the source held.
C2_NoNegativeBalance ==
    /\ \A a \in DOMAIN balances : balances[a] >= 0
    /\ Called => last.msg # PanicSubOverflow
    /\ (IsTransfer /\ last.kind = "ok") =>
           /\ last.pre[last.tx.from] - last.tx.value >= 0
           /\ balances[last.tx.from] = last.pre[last.tx.from] - last.tx.value

C2_Witness ==
    /\ IsTransfer
    /\ last.kind = "ok"
    /\ idx > 2
    /\ last.tx.value > 0
    /\ balances[last.tx.from] < last.pre[last.tx.from]

\* C3: a Transfer between two distinct existing accounts that returns Ok
\* leaves from at its previous balance minus value, to at its previous
\* balance plus value, every other balance unchanged and the sum of all
\* balances unchanged.
C3_TransferMovesValue ==
    (IsTransfer /\ last.kind = "ok" /\ last.tx.from # last.tx.to) =>
        /\ balances[last.tx.from] = last.pre[last.tx.from] - last.tx.value
        /\ balances[last.tx.to] = last.pre[last.tx.to] + last.tx.value
        /\ DOMAIN balances = DOMAIN last.pre
        /\ \A a \in DOMAIN last.pre \ {last.tx.from, last.tx.to} : balances[a] = last.pre[a]
        /\ SumBalances(balances) = SumBalances(last.pre)

\* C4: a Generate on an existing account that returns Ok leaves to at its
\* previous balance plus value, every other balance unchanged and the sum
\* of all balances larger by exactly value.
C4_GenerateCreditsValue ==
    (IsGenerate /\ last.kind = "ok") =>
        /\ balances[last.tx.to] = last.pre[last.tx.to] + last.tx.value
        /\ DOMAIN balances = DOMAIN last.pre
        /\ \A a \in DOMAIN last.pre \ {last.tx.to} : balances[a] = last.pre[a]
        /\ SumBalances(balances) = SumBalances(last.pre) + last.tx.value

\* C5: a Transfer between two existing accounts whose value is greater
\* than the balance of from fails with the insufficient-balance error and
\* leaves the whole mapping as it was.
C5_InsufficientBalanceRejected ==
    (/\ IsTransfer
     /\ last.tx.from # last.tx.to
     /\ {last.tx.from, last.tx.to} \subseteq DOMAIN last.pre
     /\ last.tx.value > last.pre[last.tx.from]) =>
        /\ last.kind = "err"
        /\ last.msg = ErrInsufficientBalance
        /\ balances = last.pre

C5_Witness ==
    /\ IsTransfer
    /\ last.tx.from # last.tx.to
    /\ {last.tx.from, last.tx.to} \subseteq DOMAIN last.pre
    /\ last.tx.value = last.pre[last.tx.from] + 1
    /\ last.kind = "err"

\* the accounts a transaction names
Referenced(tx) == IF tx.type = "transfer" THEN {tx.from, tx.to} ELSE {tx.to}

\* C6: a transaction that names an account absent from the mapping fails
\* with the account-not-found error, leaves the mapping unchanged and
\* creates no entry for the absent account.
C6_AbsentAccountRejected ==
    (Called /\ ~(Referenced(last.tx) \subseteq DOMAIN last.pre)) =>
        /\ last.kind = "err"
        /\ last.msg \in AccountNotFound
        /\ balances = last.pre
        /\ DOMAIN balances = DOMAIN last.pre

C6_Witness ==
    /\ IsTransfer
    /\ last.tx.from \in DOMAIN last.pre
    /\ last.tx.to \notin DOMAIN last.pre
    /\ last.kind = "err"
    /\ last.tx.to \notin DOMAIN balances

\* C7: from_parts applies the transactions in input order and stops at the
\* first one whose apply fails: it returns that failure, has applied
\* exactly the transactions before it, and returns a state exactly when
\* every transaction applies in the map left by its predecessors.
C7_StopsAtFirstFailure ==
    LET ff == FirstFailure(genesis, txs, 1, overflow_checks) IN
    /\ pc = "ok" => ff = 0
    /\ ff = 0 => (pc # "err" /\ (pc = "panic" => calls > 0))
    /\ pc = "err" =>
          /\ ff = idx
          /\ last.tx = txs[idx]
          /\ err = Apply(last.pre, txs[idx], overflow_checks).msg
          /\ last.pre = ReplayAll(genesis, SubSeq(txs, 1, idx - 1), overflow_checks)
          /\ balances = last.pre
    /\ (pc = "panic" /\ calls = 0) =>
          /\ ff = idx
          /\ last.tx = txs[idx]
          /\ last.pre = ReplayAll(genesis, SubSeq(txs, 1, idx - 1), overflow_checks)
    /\ (pc = "replay" /\ ff # 0) => idx <= ff

C7_Witness ==
    /\ pc = "err"
    /\ idx < Len(txs)
    /\ Apply(balances, txs[idx + 1], overflow_checks).kind = "ok"

\* C8: a credit that would take a balance beyond the largest representable
\* value makes apply fail with the arithmetic-overflow error; the balance
\* never wraps around.
C8_OverflowIsAnError ==
    (/\ Called
     /\ Referenced(last.tx) \subseteq DOMAIN last.pre
     /\ last.tx.type = "transfer" => (/\ last.tx.from # last.tx.to
                                      /\ last.tx.value <= last.pre[last.tx.from])
     /\ last.pre[last.tx.to] + last.tx.value > MaxU64) =>
        /\ last.kind = "err"
        /\ last.msg = "ArithmeticOverflow"
        /\ balances = last.pre

\* C9: a Transfer with from = to fails with account-not-found when the
\* account is absent, fails with insufficient-balance when value exceeds
\* its balance, and otherwise returns Ok and leaves the mapping unchanged.
C9_SelfTransfer ==
    (IsTransfer /\ last.tx.from = last.tx.to) =>
        IF last.tx.from \notin DOMAIN last.pre
        THEN last.kind = "err" /\ last.msg \in AccountNotFound
        ELSE IF last.tx.value > last.pre[last.tx.from]
        THEN last.kind = "err" /\ last.msg = ErrInsufficientBalance
        ELSE last.kind = "ok" /\ balances = last.pre

AliceBobGenesis == ("alice" :> 100) @@ ("bob" :> 0)
AliceFirst == <<Transfer("alice", "bob", 100), Transfer("bob", "alice", 50)>>
BobFirst == <<Transfer("bob", "alice", 50), Transfer("alice", "bob", 100)>>

\* C10: over genesis {alice: 100, bob: 0} the log [alice->bob 100,
\* bob->alice 50] builds with balances {alice: 50, bob: 50}, and the
\* reordered log [bob->alice 50, alice->bob 100] fails at its first
\* transaction with the insufficient-balance error.
C10_OrderSensitive ==
    (genesis = AliceBobGenesis /\ pc # "replay" /\ calls = 0) =>
        /\ txs = AliceFirst =>
              /\ pc = "ok"
              /\ balances = ("alice" :> 50) @@ ("bob" :> 50)
        /\ txs = BobFirst =>
              /\ pc = "err"
              /\ err = ErrInsufficientBalance
              /\ idx = 1
              /\ balances = genesis

C10_Witness ==
    /\ genesis = AliceBobGenesis
    /\ txs = AliceFirst
    /\ pc = "ok"
    /\ calls = 0
    /\ Apply(genesis, BobFirst[1], overflow_checks).kind = "err"

\* C11: a Transfer between two distinct existing accounts whose value
\* equals the balance of from returns Ok and leaves from at 0.
C11_ExactBalanceTransfer ==
    (/\ IsTransfer
     /\ last.tx.from # last.tx.to
     /\ {last.tx.from, last.tx.to} \subseteq DOMAIN last.pre
     /\ last.tx.value = last.pre[last.tx.from]) =>
        /\ last.kind = "ok"
        /\ balances[last.tx.from] = 0

\* C12: from_parts on an empty transaction sequence returns a state whose
\* balances equal the genesis balances, same accounts and same values.
C12_EmptyLogKeepsGenesis ==
    (txs = <<>> /\ calls = 0) =>
        /\ pc \in {"replay", "ok"}
        /\ balances = genesis
        /\ DOMAIN balances = DOMAIN genesis

C12_Witness ==
    /\ txs = <<>>
    /\ pc = "ok"
    /\ calls = 0
    /\ \E a \in DOMAIN genesis : genesis[a] > 0

\* the Transfer transactions apply can answer for the map pre with one
\* side missing: only from (side = "from") or only to (side = "to")
OneSideMissing(pre, side) ==
    {t \in TxSpace :
        /\ t.type = "transfer"
        /\ IF side = "from"
           THEN t.from \notin DOMAIN pre /\ t.to \in DOMAIN pre
           ELSE t.from \in DOMAIN pre /\ t.to \notin DOMAIN pre}

\* C14: the error of a Transfer whose from is missing differs from the
\* error of a Transfer whose to is missing, so that each names its side.
C14_ErrorNamesMissingSide ==
    (IsTransfer /\ last.tx \in OneSideMissing(last.pre, "from")) =>
        \A t \in OneSideMissing(last.pre, "to") :
            Apply(last.pre, t, overflow_checks).msg # last.msg

\* C18: the accounts of the balance mapping are those of the genesis
\* mapping after any sequence of apply calls, failed or not.
C18_AccountSetFixed ==
    DOMAIN balances = DOMAIN genesis

C18_Witness ==
    /\ calls > 0
    /\ Called
    /\ ~(Referenced(last.tx) \subseteq DOMAIN genesis)
    /\ Len(txs) > 0
    /\ balances # genesis

RECURSIVE GeneratedSum(_)
GeneratedSum(s) ==
    IF s = <<>> THEN 0
    ELSE (IF Head(s).type = "generate" THEN Head(s).value ELSE 0) + GeneratedSum(Tail(s))

\* C19: when from_parts returns a state, the sum of its balances is the
\* sum of the genesis balances plus the values of the Generate
\* transactions of txs.
C19_SumIsGenesisPlusGenerated ==
    (pc = "ok" /\ calls = 0) =>
        SumBalances(balances) = SumBalances(genesis) + GeneratedSum(txs)

\* C20: a Transfer whose to is absent fails with account-not-found even
\* when value exceeds the balance of from; insufficient-balance is
\* returned only when both accounts exist.
C20_ExistenceBeforeSufficiency ==
    /\ (/\ IsTransfer
        /\ last.tx.from \in DOMAIN last.pre
        /\ last.tx.to \notin DOMAIN last.pre
        /\ last.tx.value > last.pre[last.tx.from]) =>
           (last.kind = "err" /\ last.msg \in AccountNotFound)
    /\ (Called /\ last.msg = ErrInsufficientBalance) =>
           (IsTransfer /\ {last.tx.from, last.tx.to} \subseteq DOMAIN last.pre)

C20_Witness ==
    /\ IsTransfer
    /\ last.tx.from \in DOMAIN last.pre
    /\ last.tx.to \notin DOMAIN last.pre
    /\ last.tx.value > last.pre[last.tx.from]
    /\ last.msg = ErrAccountNotFound

\* a step that returns a new value from get_balance
GetBalanceAnswered == answer' # answer /\ answer'.asked

\* C13: get_balance returns the current balance of an account of the
\* mapping and None for any other account, and changes neither the
\* balance mapping (no entry is added), nor txs, nor the genesis.
C13_GetBalanceReadsOnly ==
    [][GetBalanceAnswered =>
          /\ answer'.value = IF answer'.acct \in DOMAIN balances
                             THEN Some(balances[answer'.acct])
                             ELSE None
          /\ balances' = balances
          /\ DOMAIN balances' = DOMAIN balances
          /\ txs' = txs
          /\ genesis' = genesis]_vars

C13_Witness ==
    /\ answer.asked
    /\ answer.acct \notin DOMAIN balances
    /\ answer.value = None
    /\ \E a \in DOMAIN balances : balances[a] # genesis[a]

\* C16: the genesis balances and the transaction sequence of a state are
\* never changed after construction; replay and apply write the working
\* balance mapping only.
C16_GenesisAndTxsImmutable ==
    [][genesis' = genesis /\ txs' = txs]_vars

C16_Witness ==
    /\ calls > 0
    /\ Called
    /\ last.kind = "ok"
    /\ Len(txs) > 0
    /\ balances # genesis
    /\ balances # ReplayAll(genesis, txs, overflow_checks)

\* the files were read and the genesis record or a line of the log does
\* not parse
SomeRecordMalformed ==
    /\ genesis_file.exists
    /\ tx_file.exists
    /\ \/ ~ParseGenesis(genesis_file.text).ok
       \/ \E i \in 1..Len(tx_file.lines) : ~WellFormed(tx_file.lines[i])

\* C15: when the genesis record or any record of the log is malformed,
\* open fails, no state is produced and no transaction is applied to any
\* balance mapping, also when the malformed record is the last one.
C15_MalformedInputAppliesNothing ==
    SomeRecordMalformed =>
        /\ pc \in {"open", "err"}
        /\ pc = "err" => err \in {ErrParseGenesis, ErrParseTx}
        /\ last = NoCall
        /\ balances = NoBalances
        /\ txs = <<>>

C15_Witness ==
    /\ pc = "err"
    /\ genesis_file.exists
    /\ tx_file.exists
    /\ ParseGenesis(genesis_file.text).ok
    /\ Len(tx_file.lines) >= 2
    /\ ~WellFormed(tx_file.lines[Len(tx_file.lines)])
    /\ \A i \in 1..(Len(tx_file.lines) - 1) : WellFormed(tx_file.lines[i])
    /\ Apply(ParseGenesis(genesis_file.text).balances, ParseTx(tx_file.lines[1]).tx,
             overflow_checks).kind = "ok"

====
